---- MODULE Spec2Model ----
(***************************************************************************)
(* A model of scrape.py, the price comparison scraper.                     *)
(*                                                                         *)
(* Python strings are sequences of one-character strings.  A character     *)
(* outside ASCII is written by its code point ("u0663" is ARABIC-INDIC     *)
(* DIGIT THREE, "u00B2" is SUPERSCRIPT TWO, "nbsp" is U+00A0).  A float is *)
(* a record: a decimal m * 10^-e for a finite value, or inf, -inf, nan.    *)
(* The decimals of the model are short, so that distinct decimals are      *)
(* distinct doubles and compare as their exact values do.                  *)
(***************************************************************************)
EXTENDS Integers, Sequences, FiniteSets, TLC

VARIABLES pc, arg, ret, mode, input, rd, eans, reported, cur, idx, web, prices,
          results

vars ==
    <<pc, arg, ret, mode, input, rd, eans, reported, cur, idx, web, prices, results>>

(***************************************************************************)
(* Characters and the str methods the program calls.                       *)
(***************************************************************************)
AsciiDigits == {"0", "1", "2", "3", "4", "5", "6", "7", "8", "9"}

\* Decimal digits of other scripts (Unicode category Nd), which float() and
\* the pattern \d read as digits.
UnicodeDecimals == {"u0663"}

\* Characters str.isdigit() accepts beside the ASCII digits: any character
\* whose Unicode Numeric_Type is Decimal or Digit.
UnicodeDigits == UnicodeDecimals \cup {"u00B2"}

\* What float() and \d take for a digit.
DecimalChars == AsciiDigits \cup UnicodeDecimals

\* Characters str.isspace() is true of, which str.strip() removes.
Whitespace == {" ", "nbsp"}

DigitVal(c) ==
    CASE c = "0" -> 0 [] c = "1" -> 1 [] c = "2" -> 2 [] c = "3" -> 3
      [] c = "4" -> 4 [] c = "5" -> 5 [] c = "6" -> 6 [] c = "7" -> 7
      [] c = "8" -> 8 [] c = "9" -> 9
      [] c = "u0663" -> 3

\* str.isdigit(): every character is a digit and there is at least one.
isdigit(s) ==
    /\ Len(s) > 0
    /\ \A i \in 1..Len(s) : s[i] \in AsciiDigits \cup UnicodeDigits

RECURSIVE lstrip(_)
lstrip(s) ==
    IF s # <<>> /\ Head(s) \in Whitespace THEN lstrip(Tail(s)) ELSE s

RECURSIVE rstrip(_)
rstrip(s) ==
    IF s # <<>> /\ s[Len(s)] \in Whitespace
    THEN rstrip(SubSeq(s, 1, Len(s) - 1))
    ELSE s

\* str.strip()
strip(s) == rstrip(lstrip(s))

startswith(s, pat) ==
    /\ Len(s) >= Len(pat)
    /\ SubSeq(s, 1, Len(pat)) = pat

\* str.replace(old, new) for a non-empty old: the non-overlapping
\* occurrences, left to right.
RECURSIVE replace(_, _, _)
replace(s, old, new) ==
    IF s = <<>> THEN <<>>
    ELSE IF startswith(s, old)
         THEN new \o replace(SubSeq(s, Len(old) + 1, Len(s)), old, new)
         ELSE <<Head(s)>> \o replace(Tail(s), old, new)

UpperChar(c) ==
    CASE c = "d" -> "D" [] c = "o" -> "O" [] c = "n" -> "N" [] c = "e" -> "E"
      [] c = "i" -> "I" [] c = "f" -> "F" [] c = "a" -> "A" [] c = "b" -> "B"
      [] c = "c" -> "C" [] c = "t" -> "T" [] c = "y" -> "Y"
      [] OTHER -> c

\* str.upper()
upper(s) == [i \in 1..Len(s) |-> UpperChar(s[i])]

(***************************************************************************)
(* Floats.                                                                 *)
(***************************************************************************)
None == [kind |-> "None", m |-> 0, e |-> 0]
Inf == [kind |-> "inf", m |-> 0, e |-> 0]
NegInf == [kind |-> "-inf", m |-> 0, e |-> 0]
NaN == [kind |-> "nan", m |-> 0, e |-> 0]

RECURSIVE Pow10(_)
Pow10(n) == IF n = 0 THEN 1 ELSE 10 * Pow10(n - 1)

\* The finite float m * 10^-e, with the trailing zeros of the fraction
\* dropped so that equal values are equal records.
RECURSIVE Fin(_, _)
Fin(m, e) ==
    IF e > 0 /\ m % 10 = 0 THEN Fin(m \div 10, e - 1)
    ELSE [kind |-> "fin", m |-> m, e |-> e]

\* a < b on floats: false whenever either side is nan.
FloatLt(a, b) ==
    CASE a.kind = "nan" \/ b.kind = "nan" -> FALSE
      [] a.kind = "inf" -> FALSE
      [] a.kind = "-inf" -> b.kind # "-inf"
      [] a.kind = "fin" /\ b.kind = "inf" -> TRUE
      [] a.kind = "fin" /\ b.kind = "-inf" -> FALSE
      [] a.kind = "fin" /\ b.kind = "fin" ->
            a.m * Pow10(b.e) < b.m * Pow10(a.e)

FloatNeg(a) ==
    CASE a.kind = "fin" -> Fin(0 - a.m, a.e)
      [] a.kind = "inf" -> NegInf
      [] a.kind = "-inf" -> Inf
      [] OTHER -> a

isfinite(a) == a.kind = "fin"

\* What a call produced: a returned value or a raised exception.
Return(v) == [tag |-> "return", val |-> v, exc |-> "-"]
Raise(x) == [tag |-> "raise", val |-> None, exc |-> x]

RECURSIVE DigitsValue(_)
DigitsValue(s) ==
    IF s = <<>> THEN 0
    ELSE 10 * DigitsValue(SubSeq(s, 1, Len(s) - 1)) + DigitVal(s[Len(s)])

\* The position of the first "." of s, or 0.
DotAt(s) ==
    IF \E i \in 1..Len(s) : s[i] = "."
    THEN CHOOSE i \in 1..Len(s) : s[i] = "." /\ \A j \in 1..(i - 1) : s[j] # "."
    ELSE 0

\* A decimal literal without sign: digits, digits "." digits, digits ".",
\* "." digits.  float() reads the digits of any script.
IsDecimal(s) ==
    LET d == DotAt(s)
        ip == IF d = 0 THEN s ELSE SubSeq(s, 1, d - 1)
        fp == IF d = 0 THEN <<>> ELSE SubSeq(s, d + 1, Len(s))
    IN  /\ Len(ip) + Len(fp) > 0
        /\ \A i \in 1..Len(ip) : ip[i] \in DecimalChars
        /\ \A i \in 1..Len(fp) : fp[i] \in DecimalChars

DecimalValue(s) ==
    LET d == DotAt(s)
        ip == IF d = 0 THEN s ELSE SubSeq(s, 1, d - 1)
        fp == IF d = 0 THEN <<>> ELSE SubSeq(s, d + 1, Len(s))
    IN  Fin(DigitsValue(ip \o fp), Len(fp))

\* The unsigned part of a float literal.
Magnitude(s) ==
    LET u == upper(s)
    IN  IF u \in {<<"I", "N", "F">>, <<"I", "N", "F", "I", "N", "I", "T", "Y">>}
        THEN Return(Inf)
        ELSE IF u = <<"N", "A", "N">> THEN Return(NaN)
        ELSE IF IsDecimal(s) THEN Return(DecimalValue(s))
        ELSE Raise("ValueError")

\* float(str): surrounding whitespace is ignored, one sign is allowed, then
\* a decimal literal, inf, infinity or nan in any case; anything else raises
\* ValueError.  (An exponent and a digit-grouping underscore need characters
\* that the texts of the model do not contain.)
float(s) ==
    LET t == strip(s)
        signed == t # <<>> /\ Head(t) \in {"+", "-"}
        body == IF signed THEN Tail(t) ELSE t
        r == Magnitude(body)
    IN  IF r.tag = "return" /\ signed /\ Head(t) = "-"
        THEN Return(FloatNeg(r.val))
        ELSE r

\* f"{x:.2f}" of a float.  A decimal of at most two fraction digits is
\* padded to two; the prices of the model have no more.
RECURSIVE NatDigits(_)
NatDigits(n) ==
    LET d == <<"0", "1", "2", "3", "4", "5", "6", "7", "8", "9">>[(n % 10) + 1]
    IN  IF n < 10 THEN <<d>> ELSE NatDigits(n \div 10) \o <<d>>

format2f(x) ==
    CASE x.kind = "inf" -> <<"i", "n", "f">>
      [] x.kind = "-inf" -> <<"-", "i", "n", "f">>
      [] x.kind = "nan" -> <<"n", "a", "n">>
      [] x.kind = "fin" /\ x.e <= 2 ->
            LET cents == x.m * Pow10(2 - x.e)
                a == IF cents < 0 THEN 0 - cents ELSE cents
                frac == NatDigits(a % 100)
            IN  (IF cents < 0 THEN <<"-">> ELSE <<>>)
                \o NatDigits(a \div 100) \o <<".">>
                \o (IF Len(frac) = 1 THEN <<"0">> ELSE <<>>) \o frac

(***************************************************************************)
(* The site registry and the validator.                                    *)
(***************************************************************************)
\* The keys of SITES in the order the dict literal lists them, which is the
\* order a for loop over the dict visits them.
SiteOrder == <<"Supernova Era", "Carrefour", "Lojas Queiroz">>

SITES == {SiteOrder[i] : i \in 1..Len(SiteOrder)}

\* A validator that knows the 13-digit code only.
is_valid_ean_13(ean) == isdigit(ean) /\ Len(ean) = 13

is_valid_ean(ean) == isdigit(ean) /\ (Len(ean) = 8 \/ Len(ean) = 13)

(***************************************************************************)
(* Documents.  A response carries its status, its body (response.text) and *)
(* the tree BeautifulSoup builds from the body, seen through the three     *)
(* selectors the program uses: for each, whether select_one finds an       *)
(* element and the get_text() of the first one found.                      *)
(***************************************************************************)
NoElement == [found |-> FALSE, text |-> <<>>]
Element(t) == [found |-> TRUE, text |-> t]

Soup(p, s, c) == [primary |-> p, secondary |-> s, carrefour |-> c]

Response(st, body, soup) == [status |-> st, text |-> body, soup |-> soup]

\* The literal "lowPrice": that the pattern of extract_supernova_price starts with.
LowPriceKey == <<"\"", "l", "o", "w", "P", "r", "i", "c", "e", "\"", ":">>

\* The length of the longest prefix of s made of characters of set S.
RECURSIVE Run(_, _)
Run(s, S) == IF s # <<>> /\ Head(s) \in S THEN 1 + Run(Tail(s), S) ELSE 0

Drop(s, n) == SubSeq(s, n + 1, Len(s))

\* The pattern "lowPrice":\s*(\d+\.?\d*) matched at the start of s: group 1,
\* or <<>> when it does not match there.  Every quantifier is greedy and
\* nothing follows the group, so the greedy choice is the match.
MatchHere(s) ==
    IF ~startswith(s, LowPriceKey) THEN <<>>
    ELSE LET a == Drop(s, Len(LowPriceKey))
             b == Drop(a, Run(a, Whitespace))
             n1 == Run(b, DecimalChars)
             c == Drop(b, n1)
             dot == IF c # <<>> /\ Head(c) = "." THEN 1 ELSE 0
             n2 == Run(Drop(c, dot), DecimalChars)
         IN  IF n1 = 0 THEN <<>> ELSE SubSeq(b, 1, n1 + dot + n2)

\* re.search: group 1 of the leftmost match, or <<>> when there is none.
RECURSIVE re_search(_)
re_search(s) ==
    IF s = <<>> THEN <<>>
    ELSE IF MatchHere(s) # <<>> THEN MatchHere(s)
    ELSE re_search(Tail(s))

(***************************************************************************)
(* The extractors.                                                         *)
(***************************************************************************)
PriceFloor == 1
PriceCeiling == 100000

InSanityRange(price) ==
    /\ FloatLt(Fin(PriceFloor, 0), price)
    /\ FloatLt(price, Fin(PriceCeiling, 0))

extract_supernova_price(html_text) ==
    LET match == re_search(html_text)
        price == float(match)
    IN  IF match # <<>>
        THEN IF price.tag = "raise" THEN price
             ELSE IF InSanityRange(price.val) THEN price
             ELSE Return(None)
        ELSE Return(None)

\* The cleaning both markup extractors apply to the text of the element.
clean_price_text(element_text) ==
    LET t1 == strip(element_text)
        t2 == strip(replace(t1, <<"R", "$">>, <<>>))
    IN  replace(t2, <<",">>, <<".">>)

extract_markup_price(price_element) ==
    IF price_element.found
    THEN LET price_text == clean_price_text(price_element.text)
         IN  IF price_text # <<>> THEN float(price_text) ELSE Return(None)
    ELSE Return(None)

\* The selectors in the other order.
queiroz_element_swapped(soup) ==
    IF ~soup.secondary.found THEN soup.primary ELSE soup.secondary

queiroz_element(soup) ==
    IF ~soup.primary.found THEN soup.secondary ELSE soup.primary

extract_queiroz_price(soup) == extract_markup_price(queiroz_element(soup))

extract_carrefour_price(soup) == extract_markup_price(soup.carrefour)

dispatch_price(site_name, soup, html_text) ==
    CASE site_name = "Supernova Era" -> extract_supernova_price(html_text)
      [] site_name = "Lojas Queiroz" -> extract_queiroz_price(soup)
      [] site_name = "Carrefour" -> extract_carrefour_price(soup)
      [] OTHER -> Return(None)

\* extract_price without its try.
extract_price_uncaught(site_name, soup, html_text) ==
    dispatch_price(site_name, soup, html_text)

\* The try of extract_price: ValueError and AttributeError become None.
extract_price(site_name, soup, html_text) ==
    LET r == dispatch_price(site_name, soup, html_text)
    IN  IF r.tag = "raise" /\ r.exc \in {"ValueError", "AttributeError"}
        THEN Return(None)
        ELSE r

TransportFailures == {"Timeout", "ConnectionError", "HTTPError"}

\* scrape_single_site, given what requests.get and raise_for_status do for
\* this request: a RequestException becomes None.
scrape_single_site(site_name, response) ==
    IF response.status \in TransportFailures THEN Return(None)
    ELSE extract_price(site_name, response.soup, response.text)

\* The loop of find_lowest_price over the items of the dict, in insertion
\* order: the state after the sites order[1..n].
RECURSIVE lowest_after(_, _, _)
lowest_after(prices_dict, order, n) ==
    IF n = 0 THEN [lowest_price |-> Inf, best_site |-> "N/A"]
    ELSE LET before == lowest_after(prices_dict, order, n - 1)
             site == order[n]
             price == prices_dict[site]
         IN  IF price # None /\ FloatLt(price, before.lowest_price)
             THEN [lowest_price |-> price, best_site |-> site]
             ELSE before

\* The keys of a dict that scrape_all_sites filled, in insertion order.
KeysInOrder(prices_dict) ==
    SelectSeq(SiteOrder, LAMBDA s : s \in DOMAIN prices_dict)

find_lowest_price(prices_dict) ==
    LET order == KeysInOrder(prices_dict)
        end == lowest_after(prices_dict, order, Len(order))
    IN  IF end.lowest_price = Inf
        THEN [site |-> "None Found", price |-> <<"N", "/", "A">>]
        ELSE [site |-> end.best_site, price |-> format2f(end.lowest_price)]

(***************************************************************************)
(* The readers and main.                                                   *)
(***************************************************************************)
DONE == <<"D", "O", "N", "E">>

\* A reader that drops a code it has already read.
csv_row_unique(state, cell) ==
    LET ean == strip(cell)
    IN  IF ean = <<>> \/ \E i \in 1..Len(state.eans) : state.eans[i] = ean
        THEN state
        ELSE IF is_valid_ean(ean)
             THEN [state EXCEPT !.eans = Append(@, ean)]
             ELSE [state EXCEPT !.reported = Append(@, ean)]

\* One iteration of the loop of read_eans_from_csv over the first cell of a
\* row (an empty row is skipped like an empty cell).
csv_row(state, cell) ==
    LET ean == strip(cell)
    IN  IF ean = <<>> THEN state
        ELSE IF is_valid_ean(ean)
             THEN [state EXCEPT !.eans = Append(@, ean)]
             ELSE [state EXCEPT !.reported = Append(@, ean)]

\* One iteration of the loop of read_eans_manually over a typed line.
manual_line(state, line) ==
    LET ean == strip(line)
    IN  IF upper(ean) = DONE THEN [state EXCEPT !.done = TRUE]
        ELSE IF is_valid_ean(ean)
             THEN [state EXCEPT !.eans = Append(@, ean)]
             ELSE IF ean # <<>>
                  THEN [state EXCEPT !.reported = Append(@, ean)]
                  ELSE state

EmptyDict == [s \in {} |-> None]

\* A loop that records a site only when it has a price.
store_price_if_found(prices_dict, site_name, price) ==
    IF price = None THEN prices_dict
    ELSE [s \in DOMAIN prices_dict \cup {site_name} |->
            IF s = site_name THEN price ELSE prices_dict[s]]

\* prices[site_name] = price
store_price(prices_dict, site_name, price) ==
    [s \in DOMAIN prices_dict \cup {site_name} |->
        IF s = site_name THEN price ELSE prices_dict[s]]

\* The record main appends for one code.
comparison_record(ean, product_prices) ==
    LET best == find_lowest_price(product_prices)
    IN  [EAN |-> ean, Prices |-> product_prices,
         Lowest_Site |-> best.site, Lowest_Price |-> best.price]

(***************************************************************************)
(* The inputs of the model.                                                *)
(***************************************************************************)
MaxEanLen == 14

\* Candidate codes for the validator: a run of one ASCII digit, with at most
\* one character replaced by another one.
Odd == {"u0663", "u00B2", " ", "-", "+", "a", "."}

EanStrings ==
    LET runs == {[i \in 1..n |-> d] : n \in 0..MaxEanLen, d \in {"0", "7"}}
    IN  runs \cup UNION {{[r EXCEPT ![k] = c] : k \in 1..Len(r), c \in Odd} : r \in runs}

Ean13 == <<"7", "8", "9", "1", "2", "3", "4", "5", "6", "7", "8", "9", "4">>
Ean8 == <<"0", "0", "0", "0", "0", "0", "0", "0">>
Seven == <<"0", "0", "0", "0", "0", "0", "0">>

\* What a row or a typed line may hold.
Candidates ==
    {Ean13, Ean8, Seven, <<" ">> \o Ean8 \o <<" ">>, <<>>, <<"d", "o", "n", "e">>}

MaxInput == 3

Inputs == UNION {[1..n -> Candidates] : n \in 0..MaxInput}

\* The texts of a price element.
PriceTexts ==
    { <<"R", "$", " ", "1", ".", "2", "3", "4", ",", "5", "6">>,
      <<"1", ".", "2", "3", "4", ",", "5", "6">>,
      <<" ", " ", "R", "$", " ", "1", ".", "2", "3", "4", ",", "5", "6", " ">>,
      <<"R", "$", " ", "1", "2", ",", "3", "0">>,
      <<"1", "2", ",", "3", "0">>,
      <<"R", "$", "nbsp", "1", "2", ",", "3", "0">>,
      <<"R", "$", " ", "5", ",", "0", "0">>,
      <<"R", "$", " ", "0", ",", "5", "0">>,
      <<"R", "$", " ", "0", ",", "0", "0">>,
      <<"-", "5", ",", "0", "0">>,
      <<"1", "0", "0", "0", "0", "0">>,
      <<"i", "n", "f">>,
      <<"n", "a", "n">>,
      <<"a", "b", "c">>,
      <<"R", "$">>,
      <<>> }

Elements == {NoElement} \cup {Element(t) : t \in PriceTexts}

\* The values of the lowPrice field of a page, as they are written in it.
LowPriceTexts ==
    { <<"1", "2", ".", "3", "0">>,
      <<"\"", "1", "2", ".", "3", "0", "\"">>,
      <<"\"", "a", "b", "c", "\"">>,
      <<"a", "b", "c">>,
      <<"0", ".", "5", "0">>,
      <<"1">>,
      <<"1", ".", "0", "1">>,
      <<"9", "9", "9", "9", "9", ".", "9", "9">>,
      <<"1", "0", "0", "0", "0", "0">>,
      <<"1", "2", ".">>,
      <<"u0663">>,
      <<"-", "5">>,
      <<"5">> }

Field(sep, v) == LowPriceKey \o sep \o v

Bodies ==
    {<<"{">> \o Field(sep, v) \o <<"}">> : sep \in {<<>>, <<" ">>}, v \in LowPriceTexts}
    \cup {<<"{", "}">>, <<>>}
    \cup {<<"{">> \o Field(<<" ">>, <<"\"", "a", "b", "c", "\"">>) \o <<",">>
              \o Field(<<>>, <<"7">>) \o <<"}">>}

NoSoup == Soup(NoElement, NoElement, NoElement)

\* The pages a site serves: each site is seen through what its extractor
\* reads (the body for Supernova Era, the selected elements for the others).
Pages(site_name) ==
    CASE site_name = "Supernova Era" -> {Response("ok", b, NoSoup) : b \in Bodies}
      [] site_name = "Carrefour" ->
            {Response("ok", <<>>, Soup(NoElement, NoElement, c)) : c \in Elements}
      [] site_name = "Lojas Queiroz" ->
            {Response("ok", <<>>, Soup(p, s, NoElement)) : p \in Elements, s \in Elements}

Failed(site_name) == {Response(f, <<>>, NoSoup) : f \in TransportFailures}

\* The smaller web of the runs of scrape_all_sites.
ScrapeElements ==
    {NoElement} \cup
    {Element(t) : t \in { <<"R", "$", " ", "5", ",", "0", "0">>,
                          <<"R", "$", " ", "1", "2", ",", "3", "0">>,
                          <<"i", "n", "f">>,
                          <<"a", "b", "c">> }}

ScrapeWeb(site_name) ==
    Failed(site_name) \cup
    CASE site_name = "Supernova Era" ->
            {Response("ok", <<"{">> \o Field(<<>>, v) \o <<"}">>, NoSoup) :
                v \in { <<"1", "2", ".", "3", "0">>, <<"5">>, <<"a", "b", "c">> }}
      [] site_name = "Carrefour" ->
            {Response("ok", <<>>, Soup(NoElement, NoElement, c)) : c \in ScrapeElements}
      [] site_name = "Lojas Queiroz" ->
            {Response("ok", <<>>, Soup(p, s, NoElement)) :
                p \in ScrapeElements, s \in ScrapeElements}

\* The smallest web, of the runs of main: Supernova Era times out, Carrefour
\* serves a page without a price, Lojas Queiroz times out or serves a price.
MainWeb(site_name) ==
    CASE site_name = "Supernova Era" ->
            {Response("Timeout", <<>>, NoSoup)}
      [] site_name = "Carrefour" ->
            {Response("ok", <<>>, NoSoup)}
      [] site_name = "Lojas Queiroz" ->
            {Response("Timeout", <<>>, NoSoup),
             Response("ok", <<>>, Soup(Element(<<"R", "$", " ", "5", ",", "0", "0">>),
                      NoElement, NoElement))}

(***************************************************************************)
(* The state machine.                                                      *)
(***************************************************************************)
\* The variables of main while a single function is applied.
Idle ==
    /\ mode = "-" /\ input = <<>> /\ rd = 0 /\ eans = <<>> /\ reported = <<>>
    /\ cur = 0 /\ idx = 0 /\ web = EmptyDict /\ prices = EmptyDict
    /\ results = <<>>

IdleUnchanged ==
    UNCHANGED <<mode, input, rd, eans, reported, cur, idx, web, prices, results>>

\* is_valid_ean applied to a string.
InitValidator ==
    /\ pc = "call_is_valid_ean" /\ arg \in EanStrings /\ ret = "-"
    /\ Idle

CallIsValidEan ==
    /\ pc = "call_is_valid_ean"
    /\ ret' = is_valid_ean(arg)
    /\ pc' = "returned"
    /\ UNCHANGED arg
    /\ IdleUnchanged

SpecValidator == InitValidator /\ [][CallIsValidEan]_vars

\* extract_price applied to a page of a site.
InitExtract ==
    /\ pc = "call_extract_price"
    /\ \E s \in SITES : arg \in {[site |-> s, response |-> r] : r \in Pages(s)}
    /\ ret = "-"
    /\ Idle

CallExtractPrice ==
    /\ pc = "call_extract_price"
    /\ ret' = extract_price(arg.site, arg.response.soup, arg.response.text)
    /\ pc' = "returned"
    /\ UNCHANGED arg
    /\ IdleUnchanged

SpecExtract == InitExtract /\ [][CallExtractPrice]_vars

\* main: the reader, then for each code the sites one by one, then the
\* record of the code.
NoCall == arg = <<>> /\ ret = "-"

\* An interactive session ends with DONE, as the prompt asks; a file is
\* there or not.
InitMain ==
    /\ pc = "read"
    /\ mode \in {"csv", "manual", "csv_missing"}
    /\ input \in Inputs
    /\ rd = 0 /\ eans = <<>> /\ reported = <<>>
    /\ cur = 0 /\ idx = 0 /\ web = EmptyDict /\ prices = EmptyDict
    /\ results = <<>>
    /\ NoCall

\* main, once get_ean_input has returned ean_list.
AfterInput(ean_list) ==
    IF ean_list = <<>>
    THEN pc' = "exit" /\ cur' = 0 /\ idx' = 0
    ELSE pc' = "scrape" /\ cur' = 1 /\ idx' = 1

\* open() raises FileNotFoundError and read_eans_from_csv exits.
CsvNotFound ==
    /\ pc = "read" /\ mode = "csv_missing"
    /\ pc' = "exit"
    /\ UNCHANGED <<arg, ret, mode, input, rd, eans, reported, cur, idx, web, prices,
                   results>>

ReadCsvRow ==
    /\ pc = "read" /\ mode = "csv" /\ rd < Len(input)
    /\ LET after == csv_row([eans |-> eans, reported |-> reported], input[rd + 1])
       IN  eans' = after.eans /\ reported' = after.reported
    /\ rd' = rd + 1
    /\ UNCHANGED <<pc, arg, ret, mode, input, cur, idx, web, prices, results>>

CsvEnd ==
    /\ pc = "read" /\ mode = "csv" /\ rd = Len(input)
    /\ AfterInput(eans)
    /\ UNCHANGED <<arg, ret, mode, input, rd, eans, reported, web, prices, results>>

ReadManualLine ==
    /\ pc = "read" /\ mode = "manual"
    /\ LET line == IF rd < Len(input) THEN input[rd + 1] ELSE DONE
           after == manual_line([eans |-> eans, reported |-> reported,
                                 done |-> FALSE], line)
       IN  /\ eans' = after.eans /\ reported' = after.reported
           /\ IF after.done
              THEN AfterInput(after.eans) /\ rd' = rd
              ELSE rd' = rd + 1 /\ UNCHANGED <<pc, cur, idx>>
    /\ UNCHANGED <<arg, ret, mode, input, web, prices, results>>

\* One iteration of the loop of scrape_all_sites, for the response the site
\* gave.
ScrapeSite(site_name, response) ==
    LET price == scrape_single_site(site_name, response)
    IN  /\ web' = [s \in DOMAIN web \cup {site_name} |->
                    IF s = site_name THEN response ELSE web[s]]
        /\ IF price.tag = "raise"
           THEN pc' = "crashed" /\ UNCHANGED <<prices, idx>>
           ELSE /\ prices' = store_price(prices, site_name, price.val)
                /\ idx' = idx + 1
                /\ pc' = IF idx = Len(SiteOrder) THEN "lowest" ELSE "scrape"
        /\ UNCHANGED <<arg, ret, mode, input, rd, eans, reported, cur, results>>

\* The rest of the body of the loop of main, and print_summary after the
\* last code.
FindLowest ==
    /\ pc = "lowest"
    /\ results' = Append(results, comparison_record(eans[cur], prices))
    /\ IF cur = Len(eans)
       THEN pc' = "done" /\ UNCHANGED <<cur, idx, web, prices>>
       ELSE /\ pc' = "scrape" /\ cur' = cur + 1 /\ idx' = 1
            /\ web' = EmptyDict /\ prices' = EmptyDict
    /\ UNCHANGED <<arg, ret, mode, input, rd, eans, reported>>

ScrapeMainWeb ==
    /\ pc = "scrape"
    /\ \E response \in MainWeb(SiteOrder[idx]) : ScrapeSite(SiteOrder[idx], response)

Next ==
    \/ CsvNotFound
    \/ ReadCsvRow
    \/ CsvEnd
    \/ ReadManualLine
    \/ ScrapeMainWeb
    \/ FindLowest

Spec == InitMain /\ [][Next]_vars

\* scrape_all_sites and find_lowest_price for one accepted code, over the
\* wider web.
InitScrape ==
    /\ pc = "scrape"
    /\ mode = "csv" /\ input \in {<<Ean13>>, <<Ean8>>} /\ rd = 1
    /\ eans = input /\ reported = <<>>
    /\ cur = 1 /\ idx = 1 /\ web = EmptyDict /\ prices = EmptyDict
    /\ results = <<>>
    /\ NoCall

ScrapeScrapeWeb ==
    /\ pc = "scrape"
    /\ \E response \in ScrapeWeb(SiteOrder[idx]) : ScrapeSite(SiteOrder[idx], response)

NextScrape ==
    \/ ScrapeScrapeWeb
    \/ FindLowest

SpecScrape == InitScrape /\ [][NextScrape]_vars

(***************************************************************************)
(* The properties.                                                         *)
(***************************************************************************)
IsAsciiEan(s) ==
    /\ Len(s) \in {8, 13}
    /\ \A i \in 1..Len(s) : s[i] \in AsciiDigits

\* C1: is_valid_ean accepts a string if and only if each of its characters
\* is an ASCII digit and its length is 8 or 13.
C1_AcceptsExactlyAsciiDigits ==
    pc = "returned" => (ret <=> IsAsciiEan(arg))

SitePos(s) == CHOOSE i \in 1..Len(SiteOrder) : SiteOrder[i] = s

SitesBefore(i) == {SiteOrder[j] : j \in 1..(i - 1)}

\* C2: the map scrape_all_sites returns has exactly the sites of SITES as
\* its keys, whatever each site answered; while the loop runs, the sites
\* already visited are the keys, none skipped.
C2_EverySiteRecorded ==
    /\ pc # "crashed"
    /\ pc = "scrape" => DOMAIN prices = SitesBefore(idx)
    /\ pc \in {"lowest", "done"} => DOMAIN prices = SITES
    /\ \A i \in 1..Len(results) : DOMAIN results[i].Prices = SITES

ExtractionFails(site_name, response) ==
    LET r == dispatch_price(site_name, response.soup, response.text)
    IN  r.tag = "raise" \/ r.val = None

C2_Witness ==
    /\ pc = "done"
    /\ web["Supernova Era"].status = "Timeout"
    /\ web["Carrefour"].status = "ok"
    /\ ExtractionFails("Carrefour", web["Carrefour"])
    /\ prices["Lojas Queiroz"] # None
    /\ DOMAIN results[1].Prices = SITES

Present(P) == {s \in DOMAIN P : P[s] # None}

\* The first site, in registry order, of a non-empty set of sites.
FirstOf(S) == CHOOSE s \in S : \A t \in S : SitePos(s) <= SitePos(t)

IsLowest(rec) ==
    LET P == rec.Prices
    IN  IF Present(P) = {}
        THEN rec.Lowest_Site = "None Found" /\ rec.Lowest_Price = <<"N", "/", "A">>
        ELSE LET minimal == {s \in Present(P) :
                               \A t \in Present(P) : ~FloatLt(P[t], P[s])}
             IN  /\ minimal # {}
                 /\ rec.Lowest_Site = FirstOf(minimal)
                 /\ rec.Lowest_Price = format2f(P[rec.Lowest_Site])

\* C3: find_lowest_price returns the site of the minimum present price with
\* that price, the first such site in registry order on a tie, and the
\* sentinel "None Found" when no site has a present price.
C3_LowestPresentPrice ==
    \A i \in 1..Len(results) : IsLowest(results[i])

\* The same, for the maps whose present prices are all finite numbers.
LowestOfFinitePrices ==
    \A i \in 1..Len(results) :
        (\A s \in Present(results[i].Prices) : isfinite(results[i].Prices[s]))
            => IsLowest(results[i])

\* C4: a transport failure or an extraction failure of one site never ends
\* the processing of the code: the site is recorded as absent, every other
\* site is still visited, and what is recorded for a site depends on the
\* answer of that site alone.
C4_SiteFailureIsLocal ==
    /\ pc # "crashed"
    /\ DOMAIN web = DOMAIN prices
    /\ pc \in {"lowest", "done"} => DOMAIN web = SITES
    /\ \A s \in DOMAIN web :
          /\ web[s].status \in TransportFailures => prices[s] = None
          /\ web[s].status = "ok" /\ ExtractionFails(s, web[s]) => prices[s] = None
          /\ web[s].status = "ok" /\ ~ExtractionFails(s, web[s]) =>
                prices[s] = dispatch_price(s, web[s].soup, web[s].text).val

C4_Witness ==
    /\ pc = "done"
    /\ web["Supernova Era"].status = "ConnectionError"
    /\ dispatch_price("Carrefour", web["Carrefour"].soup, web["Carrefour"].text).tag
          = "raise"
    /\ prices["Carrefour"] = None
    /\ prices["Lojas Queiroz"] = Fin(5, 0)

\* C5: a price extract_price returns as present, for any site and page, is
\* a finite number above the floor and below the ceiling.
C5_PresentPriceInSanityRange ==
    pc = "returned" =>
        /\ ret.tag = "return"
        /\ ret.val # None => isfinite(ret.val) /\ InSanityRange(ret.val)

\* The texts of the amount 1234.56 in the locale of the sites.
LocaleTexts ==
    { <<"R", "$", " ", "1", ".", "2", "3", "4", ",", "5", "6">>,
      <<"1", ".", "2", "3", "4", ",", "5", "6">>,
      <<" ", " ", "R", "$", " ", "1", ".", "2", "3", "4", ",", "5", "6", " ">> }

\* The element a markup site takes its price from, when the page has only
\* that one.
OnlyElement(a) ==
    CASE a.site = "Carrefour" -> a.response.soup.carrefour
      [] a.site = "Lojas Queiroz" /\ ~a.response.soup.secondary.found ->
            a.response.soup.primary
      [] OTHER -> NoElement

\* C6: markup extraction of the text "R$ 1.234,56", with or without the
\* currency symbol and surrounding whitespace, yields the price 1234.56.
C6_LocaleTextNormalized ==
    pc = "returned" /\ OnlyElement(arg).found /\ OnlyElement(arg).text \in LocaleTexts
        => ret = Return(Fin(123456, 2))

QuotedNumberBody ==
    <<"{">> \o Field(<<" ">>, <<"\"", "1", "2", ".", "3", "0", "\"">>) \o <<"}">>

QuotedTextBody ==
    <<"{">> \o Field(<<" ">>, <<"\"", "a", "b", "c", "\"">>) \o <<"}">>

\* C7: the document {"lowPrice": "12.30"} yields the present price 12.30,
\* and the document {"lowPrice": "abc"} yields absent with no exception.
C7_StructuredLowPrice ==
    pc = "returned" /\ arg.site = "Supernova Era" =>
        /\ arg.response.text = QuotedNumberBody => ret = Return(Fin(1230, 2))
        /\ arg.response.text = QuotedTextBody => ret = Return(None)

\* What float makes of the cleaned text of an element, None when the text
\* is empty or does not parse.
ParsedPrice(element) ==
    LET t == clean_price_text(element.text)
    IN  IF element.found /\ t # <<>> /\ float(t).tag = "return"
        THEN float(t).val
        ELSE None

QueirozPage == pc = "returned" /\ arg.site = "Lojas Queiroz"

\* C10 as stated: the price comes from the primary selector whenever that
\* one yields a price, otherwise from the secondary selector, and the result
\* is absent only when neither yields a parseable price.
C10_FallsBackOnParseFailure ==
    QueirozPage =>
        LET p == ParsedPrice(arg.response.soup.primary)
            s == ParsedPrice(arg.response.soup.secondary)
        IN  ret = Return(IF p # None THEN p ELSE s)

\* C10 amended: the price is read from the element the primary selector
\* matches whenever there is one, and from the element the secondary
\* selector matches only when the primary matches nothing; the result is
\* absent when no element is matched or the text of the chosen element is
\* empty or does not parse.
C10_FallsBackOnMissingElement ==
    QueirozPage =>
        LET soup == arg.response.soup
        IN  ret = Return(IF soup.primary.found
                         THEN ParsedPrice(soup.primary)
                         ELSE ParsedPrice(soup.secondary))

C10_Witness ==
    /\ QueirozPage
    /\ arg.response.soup.primary = Element(<<"a", "b", "c">>)
    /\ ParsedPrice(arg.response.soup.secondary) = Fin(5, 0)
    /\ ret = Return(None)

\* The lines a reader gets to see: all the rows of a file, the lines typed
\* before the first DONE.
RECURSIVE BeforeDone(_)
BeforeDone(lines) ==
    IF lines = <<>> \/ upper(strip(Head(lines))) = DONE THEN <<>>
    ELSE <<Head(lines)>> \o BeforeDone(Tail(lines))

Seen == IF mode = "manual" THEN BeforeDone(input) ELSE input

AcceptedCodes ==
    SelectSeq([i \in 1..Len(Seen) |-> strip(Seen[i])], is_valid_ean)

ResultCodes == [i \in 1..Len(results) |-> results[i].EAN]

AllAbsent(rec) == \A s \in SITES : rec.Prices[s] = None

\* C8: the results of main hold one record for each accepted code, in input
\* order and with duplicates, also for a code no site has a price for (its
\* record carries "None Found"); a rejected candidate makes no record and
\* does not stop the codes after it.
C8_OneRecordPerAcceptedCode ==
    /\ pc # "crashed"
    /\ pc \in {"scrape", "lowest"} =>
          /\ eans = AcceptedCodes
          /\ ResultCodes = SubSeq(AcceptedCodes, 1, cur - 1)
    /\ pc = "done" => ResultCodes = AcceptedCodes /\ AcceptedCodes # <<>>
    /\ pc = "exit" => results = <<>> /\ (AcceptedCodes = <<>> \/ mode = "csv_missing")
    /\ \A i \in 1..Len(results) :
          AllAbsent(results[i]) => results[i].Lowest_Site = "None Found"

C8_Witness ==
    /\ pc = "done"
    /\ input = <<Ean8, Seven, Ean8>>
    /\ ResultCodes = <<Ean8, Ean8>>
    /\ reported = <<Seven>>
    /\ AllAbsent(results[1])
    /\ results[1].Lowest_Site = "None Found"
    /\ results[2].Lowest_Site = "Lojas Queiroz"

Readable == mode \in {"csv", "manual"}

\* C9 as stated: of the codes 7891234567894 and 00000000 the second fails
\* validation, so that the run ends with the record of the first alone and
\* 00000000 reported as invalid.
C9_SecondCodeRejected ==
    pc = "done" /\ Readable /\ input = <<Ean13, Ean8>> =>
        /\ ResultCodes = <<Ean13>>
        /\ reported = <<Ean8>>

\* C9 amended: 7891234567894 and 00000000 both pass validation (00000000 is
\* eight digits), so that the run ends with a record for each, in input
\* order, and nothing reported; a second code that does fail validation
\* (0000000, seven digits) is reported and skipped, and the run still ends
\* with the record of the first.
C9_BothCodesProcessed ==
    /\ Readable /\ input \in {<<Ean13, Ean8>>, <<Ean13, Seven>>} =>
          pc \notin {"exit", "crashed"}
    /\ pc = "done" /\ Readable /\ input = <<Ean13, Ean8>> =>
          ResultCodes = <<Ean13, Ean8>> /\ reported = <<>>
    /\ pc = "done" /\ Readable /\ input = <<Ean13, Seven>> =>
          ResultCodes = <<Ean13>> /\ reported = <<Seven>>

C9_Witness ==
    /\ pc = "done" /\ Readable /\ input = <<Ean13, Ean8>>
    /\ Len(results) = 2
    /\ results[2].EAN = Ean8

====
